---- MODULE Spec2Model ----
(***************************************************************************)
(* kzg-rs: typed byte containers (dtypes.rs) and protocol constants        *)
(* (consts.rs).                                                            *)
(*                                                                         *)
(* A byte string ([u8], Vec<u8>, [u8; N]) is held as pages: a sequence of   *)
(* sequences of PageSize bytes, the last one possibly shorter; BLen, At,    *)
(* Sub, Cat and FromSeq read and build it by byte index.  A 64-bit limb of  *)
(* consts.rs is written as its four 16-bit groups, most significant first,  *)
(* exactly as they stand in the hexadecimal literal; a Scalar is the 16     *)
(* base-2^16 digits of an integer in [0, q), most significant first.        *)
(***************************************************************************)
EXTENDS Integers, Sequences, FiniteSets, TLC

VARIABLES
  slice,       \* the caller's byte slice (the argument of from_slice)
  bad,         \* test oracle: indices of the 32-byte chunks of slice planted with a value >= q
  b32,         \* Option<Bytes32> held by the caller
  b48,         \* Option<Bytes48> held by the caller
  blob,        \* Option<Blob> held by the caller
  wire,        \* Option<Vec<u8>>: bincode bytes in flight
  ret,         \* the last call and what it returned
  nbatch,      \* Fiat-Shamir: the batch count n
  transcript,  \* Fiat-Shamir: the hash inputs assembled so far
  k,           \* roots of unity: the table index under test
  acc,         \* roots of unity: SCALE2_ROOT_OF_UNITY[k] ^ (2^n)
  n            \* roots of unity: squarings done

vars == <<slice, bad, b32, b48, blob, wire, ret, nbatch, transcript, k, acc, n>>

----------------------------------------------------------------------------
(* consts.rs *)

BYTES_PER_FIELD_ELEMENT == 32

NUM_FIELD_ELEMENTS_PER_BLOB == 4096

BYTES_PER_BLOB == NUM_FIELD_ELEMENTS_PER_BLOB * BYTES_PER_FIELD_ELEMENT

BYTES_PER_COMMITMENT == 48

BYTES_PER_PROOF == 48

DOMAIN_STR_LENGTH == 16

(* The size without the two 8-byte fields. *)
CHALLENGE_INPUT_SIZE_NoFields == DOMAIN_STR_LENGTH + BYTES_PER_BLOB + BYTES_PER_COMMITMENT

CHALLENGE_INPUT_SIZE == DOMAIN_STR_LENGTH + 16 + BYTES_PER_BLOB + BYTES_PER_COMMITMENT

FIAT_SHAMIR_PROTOCOL_DOMAIN ==
  <<"F","S","B","L","O","B","V","E","R","I","F","Y","_","V","1","_">>

(* The batch tag pasted from the per-blob tag. *)
RANDOM_CHALLENGE_KZG_BATCH_DOMAIN_Pasted ==
  <<"F","S","B","L","O","B","V","E","R","I","F","Y","_","V","1","_">>

RANDOM_CHALLENGE_KZG_BATCH_DOMAIN ==
  <<"R","C","K","Z","G","B","A","T","C","H","_","_","_","V","1","_">>

SCALE2_ROOT_OF_UNITY ==
  <<
    << <<\h0000, \h0000, \h0000, \h0001>>,
       <<\h0000, \h0000, \h0000, \h0000>>,
       <<\h0000, \h0000, \h0000, \h0000>>,
       <<\h0000, \h0000, \h0000, \h0000>> >>,
    << <<\hffff, \hffff, \h0000, \h0000>>,
       <<\h53bd, \ha402, \hfffe, \h5bfe>>,
       <<\h3339, \hd808, \h09a1, \hd805>>,
       <<\h73ed, \ha753, \h299d, \h7d48>> >>,
    << <<\h0001, \h0000, \h0000, \h0000>>,
       <<\hec03, \h0002, \h7603, \h0000>>,
       <<\h8d51, \hccce, \h7603, \h04d0>>,
       <<\h0000, \h0000, \h0000, \h0000>> >>,
    << <<\h7228, \hfd33, \h9774, \h3f7a>>,
       <<\hb38b, \h21c2, \h8713, \hb700>>,
       <<\h8c06, \h25cd, \h70d7, \h7ce2>>,
       <<\h3457, \h66f6, \h03fa, \h66e7>> >>,
    << <<\h53ea, \h61d8, \h7742, \hbcce>>,
       <<\h17be, \hb312, \hf20b, \h6f76>>,
       <<\hdd1c, \h0af8, \h34ce, \hc32c>>,
       <<\h20b1, \hce91, \h4026, \h7af9>> >>,
    << <<\h360c, \h6099, \h7369, \hdf4e>>,
       <<\hbf6e, \h88fb, \h4c38, \hfb8a>>,
       <<\hb4bc, \hd40e, \h22f5, \h5448>>,
       <<\h50e0, \h903a, \h1579, \h88ba>> >>,
    << <<\h8140, \hd032, \hf0a9, \hee53>>,
       <<\h2d96, \h7f4b, \he2f9, \h5155>>,
       <<\h14a1, \he271, \h64d8, \hfdbd>>,
       <<\h45af, \h6345, \hec05, \h5e4d>> >>,
    << <<\h5130, \hc2c1, \h6601, \h25be>>,
       <<\h98d0, \hcaac, \h87f5, \h713c>>,
       <<\hb7c6, \h8b4d, \h7fdd, \h60d0>>,
       <<\h6898, \h1114, \h1358, \h8742>> >>,
    << <<\h4935, \hbd2f, \h817f, \h694b>>,
       <<\h0a08, \h65a8, \h99e8, \hdeff>>,
       <<\h6b36, \h8121, \hac0c, \hf4ad>>,
       <<\h4f9b, \h4098, \he2e9, \hf12e>> >>,
    << <<\h4541, \hb8ff, \h2ee0, \h434e>>,
       <<\hd697, \h168a, \h3a60, \h00fe>>,
       <<\h39fe, \hec24, \h0d80, \h689f>>,
       <<\h0951, \h6652, \h5526, \ha654>> >>,
    << <<\h3c28, \hd666, \ha5c2, \hd854>>,
       <<\hea43, \h7f96, \h26fc, \h085e>>,
       <<\h8f4d, \he02c, \h0f77, \h6af3>>,
       <<\h325d, \hb5c3, \hdebf, \h77a1>> >>,
    << <<\h4a83, \h8b5d, \h59cd, \h79e5>>,
       <<\h55ea, \h6811, \hbe9c, \h622d>>,
       <<\h09f1, \hca61, \h0a08, \hf166>>,
       <<\h6d03, \h1f1b, \h5c49, \hc834>> >>,
    << <<\he206, \hda11, \ha5d3, \h6306>>,
       <<\h0ad1, \h347b, \h378f, \hbf96>>,
       <<\hfc3e, \h8acf, \he0f8, \h245f>>,
       <<\h564c, \h0a11, \ha0f7, \h04f4>> >>,
    << <<\h6fdd, \h00bf, \hc78c, \h8967>>,
       <<\h146b, \h58bc, \h4349, \h06ac>>,
       <<\h2ccd, \hdea2, \h972e, \h89ed>>,
       <<\h485d, \h5127, \h37b1, \hda3d>> >>,
    << <<\h034d, \h2ff2, \h2a5a, \hd9e1>>,
       <<\hae46, \h22f6, \ha915, \h2435>>,
       <<\hdc86, \hb01c, \h0d47, \h7fa6>>,
       <<\h5662, \h4634, \hb500, \ha166>> >>,
    << <<\hfbd0, \h47e1, \h1279, \hbb6e>>,
       <<\hc8d5, \hf51d, \hb3f3, \h2699>>,
       <<\h4834, \h0541, \h7a0c, \hbe39>>,
       <<\h3291, \h357e, \he558, \hb50d>> >>,
    << <<\hd711, \h8f85, \hcd96, \hb8ad>>,
       <<\h67a6, \h65ae, \h1fca, \hdc91>>,
       <<\h88f3, \h9a78, \hf1ae, \hb578>>,
       <<\h2155, \h379d, \h1218, \h0caa>> >>,
    << <<\h0869, \h2405, \hf3b7, \h0f10>>,
       <<\hcd7f, \h2bd6, \hd071, \h1b7d>>,
       <<\h473a, \h2eef, \h772c, \h33d6>>,
       <<\h2242, \h6233, \h2d8a, \hcbf4>> >>,
    << <<\h6f42, \h1a7d, \h8ef6, \h74fb>>,
       <<\hbb97, \ha3bf, \h30ce, \h40fd>>,
       <<\h652f, \h717a, \he1c3, \h4bb0>>,
       <<\h2d30, \h56a5, \h3079, \h4f01>> >>,
    << <<\h194e, \h8c62, \hecb3, \h8d9d>>,
       <<\had8e, \h16e8, \h4419, \hc750>>,
       <<\hdf62, \h5e80, \hd0ad, \hef90>>,
       <<\h520e, \h587a, \h724a, \h6955>> >>,
    << <<\hfece, \h7e0e, \h3989, \h8d4b>>,
       <<\h2f69, \he02d, \h265e, \h09d9>>,
       <<\ha57a, \h6e07, \hcb98, \hde4a>>,
       <<\h03e1, \hc54b, \hcb94, \h7035>> >>,
    << <<\hcd39, \h7912, \h2d3e, \ha03a>>,
       <<\h46b3, \h105f, \h04db, \h5844>>,
       <<\hc70d, \h0874, \hb069, \h1d4e>>,
       <<\h47c8, \hb581, \h7018, \haf4f>> >>,
    << <<\hc6e7, \ha6ff, \hb08e, \h3363>>,
       <<\he08f, \hec7c, \h8638, \h9bee>>,
       <<\hf2d3, \h8f10, \hfbb8, \hd1bb>>,
       <<\h0abe, \h6a5e, \h5abc, \haa32>> >>,
    << <<\h5616, \hc57d, \he0ec, \h9eae>>,
       <<\hc631, \hffb2, \h585a, \h72db>>,
       <<\h5121, \haf06, \ha3b5, \h1e3c>>,
       <<\h7356, \h0252, \haa06, \h55b2>> >>,
    << <<\h92cf, \h4deb, \h77bd, \h779c>>,
       <<\h72cf, \h6a80, \h29b7, \hd7bc>>,
       <<\h6e0b, \hcd91, \hee76, \h2730>>,
       <<\h291c, \hf6d6, \h8823, \he687>> >>,
    << <<\hce32, \hef84, \h4e11, \ha51e>>,
       <<\hc0ba, \h12bb, \h3da6, \h4ca5>>,
       <<\h0454, \hdc1e, \hdc61, \ha1a3>>,
       <<\h019f, \he632, \hfd32, \h8739>> >>,
    << <<\h531a, \h11a0, \hd2d7, \h5182>>,
       <<\h02c8, \h1184, \h0286, \h7ddc>>,
       <<\h1161, \h68bf, \hfbed, \hc11d>>,
       <<\h0a0a, \h77a3, \hb198, \h0c0d>> >>,
    << <<\he2d0, \ha786, \h9f03, \h19ed>>,
       <<\hb94f, \h1101, \hb1d7, \ha628>>,
       <<\hece8, \hea22, \h4f31, \hd25d>>,
       <<\h2339, \h7a93, \h00f8, \hf98b>> >>,
    << <<\hd7b6, \h8883, \h0a4f, \h2089>>,
       <<\h6558, \he9e3, \hf6ac, \h7b41>>,
       <<\h99e2, \h76b5, \h7190, \h5a7d>>,
       <<\h52dd, \h465e, \h2f09, \h4256>> >>,
    << <<\h4746, \h5035, \h9d8e, \h211b>>,
       <<\h84d3, \h7b82, \h6214, \habc6>>,
       <<\h8da4, \h0c1e, \hf2bb, \h4598>>,
       <<\h0c83, \hea77, \h44bf, \h1bee>> >>,
    << <<\h6943, \h41f6, \h08c9, \hdd56>>,
       <<\hed3a, \h181f, \habb3, \h0adc>>,
       <<\h1339, \ha815, \hda8b, \h398f>>,
       <<\h2c6d, \h4e45, \h1165, \h7e1e>> >>,
    << <<\h63e7, \hcb49, \h06ff, \hc93f>>,
       <<\hf070, \hbb00, \he28a, \h193d>>,
       <<\had17, \h15b0, \h2e57, \h13b5>>,
       <<\h4b53, \h7149, \h5990, \h693f>> >>
  >>

(* The modulus with a mistyped last digit of its second limb. *)
MODULUS_Typo ==
  << <<\hffff, \hffff, \h0000, \h0001>>,
     <<\h53bd, \ha402, \hfffe, \h5bff>>,
     <<\h3339, \hd808, \h09a1, \hd805>>,
     <<\h73ed, \ha753, \h299d, \h7d48>> >>

MODULUS ==
  << <<\hffff, \hffff, \h0000, \h0001>>,
     <<\h53bd, \ha402, \hfffe, \h5bfe>>,
     <<\h3339, \hd808, \h09a1, \hd805>>,
     <<\h73ed, \ha753, \h299d, \h7d48>> >>

----------------------------------------------------------------------------
(* The arithmetic oracle: integers below 2^256 as 16 digits in base 2^16. *)

Base == 65536

NumDigits == 16

Min(S) == CHOOSE x \in S : \A y \in S : x <= y

(* Four little-endian u64 limbs read as one integer (Scalar::from_raw). *)
FromRaw(limbs) == limbs[4] \o limbs[3] \o limbs[2] \o limbs[1]

q == FromRaw(MODULUS)

ZERO == SubSeq([i \in 1..NumDigits |-> 0], 1, NumDigits)

ONE == SubSeq([i \in 1..NumDigits |-> IF i = NumDigits THEN 1 ELSE 0], 1, NumDigits)

Geq(a, b) ==
  LET d == {i \in 1..NumDigits : a[i] # b[i]}
  IN  d = {} \/ a[Min(d)] > b[Min(d)]

RECURSIVE AddDigits(_, _, _, _)
AddDigits(a, b, i, carry) ==
  IF i = 0 THEN <<>>
  ELSE LET s == a[i] + b[i] + carry
       IN  Append(AddDigits(a, b, i - 1, s \div Base), s % Base)

RECURSIVE SubDigits(_, _, _, _)
SubDigits(a, b, i, borrow) ==
  IF i = 0 THEN <<>>
  ELSE LET s == a[i] - b[i] - borrow
       IN  Append(SubDigits(a, b, i - 1, IF s < 0 THEN 1 ELSE 0), s % Base)

IsCanonical(a) == ~Geq(a, q)

(* a + b mod q, for a, b < q (q < 2^255, so the sum fits 16 digits). *)
AddMod(a, b) ==
  LET s == AddDigits(a, b, NumDigits, 0)
  IN  IF Geq(s, q) THEN SubDigits(s, q, NumDigits, 0) ELSE s

(* sum * 2^j + a * (the low j bits of digit d), mod q: double-and-add, the
   most significant of the j bits first. *)
RECURSIVE MulBits(_, _, _, _)
MulBits(a, d, j, sum) ==
  IF j = 0 \/ Len(sum) # NumDigits THEN sum
  ELSE LET dbl == AddMod(sum, sum)
           nxt == IF (d \div (2 ^ (j - 1))) % 2 = 1 THEN AddMod(dbl, a) ELSE dbl
       IN  MulBits(a, d, j - 1, nxt)

(* a * b mod q, for a, b < q: the digits of b, most significant first. *)
RECURSIVE MulFrom(_, _, _, _)
MulFrom(a, b, i, sum) ==
  IF i > NumDigits \/ Len(sum) # NumDigits THEN sum
  ELSE MulFrom(a, b, i + 1, MulBits(a, b[i], 16, sum))

MulMod(a, b) == MulFrom(a, b, 1, ZERO)

----------------------------------------------------------------------------
(* Byte strings *)

PageSize == 256

(* slice.len() *)
BLen(b) == IF b = <<>> THEN 0 ELSE (Len(b) - 1) * PageSize + Len(b[Len(b)])

(* slice[i - 1] *)
At(b, i) == b[((i - 1) \div PageSize) + 1][((i - 1) % PageSize) + 1]

(* The function f over 1..cnt, as a sequence. *)
AsSeq(f, cnt) == SubSeq(f, 1, cnt)

(* The byte string holding the bytes of the sequence s. *)
FromSeq(s) ==
  LET t == AsSeq(s, Len(s))
      pages == (Len(t) + PageSize - 1) \div PageSize
      last(p) == IF p * PageSize <= Len(t) THEN p * PageSize ELSE Len(t)
  IN  AsSeq([p \in 1..pages |-> SubSeq(t, (p - 1) * PageSize + 1, last(p))], pages)

(* Bytes x..y of b as one sequence, for y - x < PageSize: they lie on one page
   or on two neighbouring ones. *)
Span(b, x, y) ==
  LET px == ((x - 1) \div PageSize) + 1
      py == ((y - 1) \div PageSize) + 1
      ox == ((x - 1) % PageSize) + 1
      oy == ((y - 1) % PageSize) + 1
  IN  IF y < x THEN <<>>
      ELSE IF px = py THEN SubSeq(b[px], ox, oy)
      ELSE SubSeq(b[px], ox, PageSize) \o SubSeq(b[py], 1, oy)

(* &slice[lo - 1 .. hi] *)
Sub(b, lo, hi) ==
  LET len == hi - lo + 1
      pages == (len + PageSize - 1) \div PageSize
      last(p) == IF p * PageSize <= len THEN p * PageSize ELSE len
  IN  AsSeq([p \in 1..pages |-> Span(b, lo + (p - 1) * PageSize, lo + last(p) - 1)], pages)

(* a followed by b *)
Cat(a, b) ==
  LET la == BLen(a)
      len == la + BLen(b)
      pages == (len + PageSize - 1) \div PageSize
      first(p) == (p - 1) * PageSize + 1
      last(p) == IF p * PageSize <= len THEN p * PageSize ELSE len
      min(x, y) == IF x <= y THEN x ELSE y
      max(x, y) == IF x <= y THEN y ELSE x
  IN  AsSeq([p \in 1..pages |->
               Span(a, first(p), min(last(p), la))
                 \o Span(b, max(first(p), la + 1) - la, last(p) - la)],
            pages)

----------------------------------------------------------------------------
(* dtypes.rs *)

Ok(v) == [tag |-> "Ok", err |-> "none", val |-> v, pulled |-> 0]

Err(e) == [tag |-> "Err", err |-> e, val |-> <<>>, pulled |-> 0]

Some(b) == [some |-> TRUE, bytes |-> b]

None == [some |-> FALSE, bytes |-> <<>>]

BYTES32_SIZE == 32

BYTES48_SIZE == 48

BLOB_INNER_SIZE == 131072

(* let mut bytes = [0u8; size] without the copy that should follow. *)
CopyFromSlice_Zeroed(s, size) == FromSeq([i \in 1..size |-> 0])

(* bytes.copy_from_slice(slice), for a slice of length size *)
CopyFromSlice(s, size) == Sub(s, 1, size)

(* from_slice with the length test written as "shorter than". *)
BytesFromSlice_AcceptsLonger(s, size) ==
  IF BLen(s) < size THEN Err("InvalidBytesLength") ELSE Ok(CopyFromSlice(s, size))

(* define_bytes_type!: $name::from_slice *)
BytesFromSlice(s, size) ==
  IF BLen(s) # size THEN Err("InvalidBytesLength") ELSE Ok(CopyFromSlice(s, size))

Bytes32_from_slice(s) == BytesFromSlice(s, BYTES32_SIZE)

Bytes48_from_slice(s) == BytesFromSlice(s, BYTES48_SIZE)

(* define_bytes_type!: as_slice, boxed, From<$name> for [u8; $size] *)
Bytes_as_slice(self) == self

Bytes_boxed(self) == self

Bytes_into(value) == value

(* from_slice without the length test. *)
Blob_from_slice_NoCheck(s) == Ok(CopyFromSlice(s, BLen(s)))

Blob_from_slice(s) ==
  IF BLen(s) # BYTES_PER_BLOB THEN Err("InvalidBytesLength")
  ELSE Ok(CopyFromSlice(s, BYTES_PER_BLOB))

Blob_as_slice(self) == self

Blob_into(value) == value

Blob_boxed(self) == Blob_into(self)

Blob_clone(self) == self

(* slice::rchunks(size): the chunks taken from the end of the slice. *)
Chunks_Reversed(s, size) ==
  LET cnt == (BLen(s) + size - 1) \div size
      lo(c) == IF BLen(s) - c * size > 0 THEN BLen(s) - c * size ELSE 0
  IN  AsSeq([c \in 1..cnt |-> Sub(s, lo(c) + 1, BLen(s) - (c - 1) * size)], cnt)

(* slice::chunks(size): consecutive chunks of size bytes, the last one shorter
   when size does not divide the length. *)
Chunks(s, size) ==
  LET cnt == (BLen(s) + size - 1) \div size
      hi(c) == IF c * size < BLen(s) THEN c * size ELSE BLen(s)
  IN  AsSeq([c \in 1..cnt |-> Sub(s, (c - 1) * size + 1, hi(c))], cnt)

(* 32 big-endian bytes as base-2^16 digits *)
DigitsFromBytesBE(b) ==
  AsSeq([i \in 1..NumDigits |-> At(b, 2 * i - 1) * 256 + At(b, 2 * i)], NumDigits)

(* kzg_proof::safe_scalar_affine_from_bytes: the canonical decode *)
safe_scalar_affine_from_bytes(b) ==
  LET v == DigitsFromBytesBE(b)
  IN  IF Geq(v, q) THEN Err("BadArgs") ELSE Ok(v)

(* |slice| Bytes32::from_slice(slice).and_then(|bytes| safe_scalar_affine_from_bytes(&bytes)) *)
DecodeChunk(chunk) ==
  LET r == Bytes32_from_slice(chunk)
  IN  IF r.tag = "Err" THEN r ELSE safe_scalar_affine_from_bytes(r.val)

(* .map(|r| r.unwrap_or_default()).collect(): a failing chunk taken as zero. *)
CollectScalars_DefaultsErrors(cs) ==
  LET mapped == AsSeq([c \in DOMAIN cs |-> DecodeChunk(cs[c])], Len(cs))
      value(c) == IF mapped[c].tag = "Ok" THEN mapped[c].val ELSE ZERO
  IN  [Ok(AsSeq([c \in DOMAIN cs |-> value(c)], Len(cs))) EXCEPT !.pulled = Len(cs)]

(* .map(..).collect::<Result<Vec<Scalar>, KzgError>>(): the items in order up to
   the first Err, which is returned; pulled counts the items the collect took
   from the iterator. *)
CollectScalars(cs) ==
  LET mapped == AsSeq([c \in DOMAIN cs |-> DecodeChunk(cs[c])], Len(cs))
      errs == {c \in DOMAIN cs : mapped[c].tag = "Err"}
  IN  IF errs = {}
      THEN [Ok(AsSeq([c \in DOMAIN cs |-> mapped[c].val], Len(cs))) EXCEPT !.pulled = Len(cs)]
      ELSE [mapped[Min(errs)] EXCEPT !.pulled = Min(errs)]

(* as_polynomial cutting the blob into 48-byte chunks. *)
Blob_as_polynomial_By48(self) == CollectScalars(Chunks(self, BYTES_PER_COMMITMENT))

Blob_as_polynomial(self) == CollectScalars(Chunks(self, BYTES_PER_FIELD_ELEMENT))

(* bincode: a u64 little-endian length, then the bytes *)
RECURSIVE LEBytes(_, _)
LEBytes(x, cnt) == IF cnt = 0 THEN <<>> ELSE <<x % 256>> \o LEBytes(x \div 256, cnt - 1)

LenPrefix == 8

BincodeSerializeBytes(b) == Cat(FromSeq(LEBytes(BLen(b), LenPrefix)), b)

(* <Vec<u8>>::deserialize: the length, then that many u8 elements; a length of
   2^24 or more exceeds what any wire here holds *)
BincodeDeserializeVec(w) ==
  IF BLen(w) < LenPrefix THEN Err("serde")
  ELSE LET cnt == At(w, 1) + 256 * At(w, 2) + 65536 * At(w, 3)
       IN  IF (\E i \in 4..LenPrefix : At(w, i) # 0) \/ cnt > BLen(w) - LenPrefix
           THEN Err("serde")
           ELSE Ok(Sub(w, LenPrefix + 1, LenPrefix + cnt))

Blob_serialize(self) == BincodeSerializeBytes(Blob_as_slice(self))

(* deserialize keeping the vector whatever its length. *)
Blob_deserialize_Unchecked(w) == BincodeDeserializeVec(w)

(* inner.into_boxed_slice().try_into(): Box<[u8]> to Box<[u8; 131072]> *)
Blob_deserialize(w) ==
  LET inner == BincodeDeserializeVec(w)
  IN  IF inner.tag = "Err" THEN inner
      ELSE IF BLen(inner.val) = BLOB_INNER_SIZE THEN Ok(inner.val)
      ELSE Err("serde")
----------------------------------------------------------------------------
(* The caller's inputs *)

MaxLenDelta == 1

MaxPlanted == 2

Sizes == {BYTES32_SIZE, BYTES48_SIZE, BYTES_PER_BLOB}

Lens == {0} \cup UNION {(s - MaxLenDelta)..(s + MaxLenDelta) : s \in Sizes}

BytesFromDigitsBE(d) ==
  FromSeq([i \in 1..(2 * NumDigits) |-> IF i % 2 = 1 THEN d[(i + 1) \div 2] \div 256
                                        ELSE d[i \div 2] % 256])

(* The 32-byte patterns planted into a slice: q itself, 2^256 - 1 and q - 1. *)
Patterns ==
  { [bytes |-> BytesFromDigitsBE(q), canonical |-> FALSE],
    [bytes |-> FromSeq([i \in 1..BYTES_PER_FIELD_ELEMENT |-> 255]), canonical |-> FALSE],
    [bytes |-> BytesFromDigitsBE(SubDigits(q, ONE, NumDigits, 0)), canonical |-> TRUE] }

(* Chunk indices (from 0) that may be planted: the first, the middle and the
   last chunk of a slice of a declared size. *)
Sites(len) ==
  IF len \notin Sizes THEN {}
  ELSE LET cnt == len \div BYTES_PER_FIELD_ELEMENT
       IN  {0, (cnt - 1) \div 2, cnt - 1}

(* b with pat written over its bytes from - 1 .. from - 1 + BLen(pat) *)
Overwrite(b, from, pat) ==
  Cat(Cat(Sub(b, 1, from - 1), pat), Sub(b, from + BLen(pat), BLen(b)))

RECURSIVE Plant(_, _, _)
Plant(b, planted, pat) ==
  IF planted = {} THEN b
  ELSE LET c == Min(planted)
       IN  Plant(Overwrite(b, c * BYTES_PER_FIELD_ELEMENT + 1, pat), planted \ {c}, pat)

(* len zero bytes, with pat written at the planted chunks *)
MakeSlice(len, planted, pat) == Plant(FromSeq([i \in 1..len |-> 0]), planted, pat)

IdleRet == [op |-> "none", tag |-> "none", err |-> "none", val |-> <<>>, pulled |-> 0]

NoWire == [some |-> FALSE, bytes |-> <<>>, from |-> "none"]

Call(op, r) == [op |-> op, tag |-> r.tag, err |-> r.err, val |-> r.val, pulled |-> r.pulled]

(* The slices a caller may hold: a slice of a declared size is planted with one
   pattern at up to MaxPlanted of its sites (wide), or at its first chunk at
   most. *)
Inputs ==
  { [len |-> len, planted |-> planted, pat |-> pat] :
      len \in Lens,
      planted \in {p \in SUBSET {0, (BYTES_PER_BLOB \div BYTES_PER_FIELD_ELEMENT - 1) \div 2,
                                 BYTES_PER_BLOB \div BYTES_PER_FIELD_ELEMENT - 1} :
                     Cardinality(p) <= MaxPlanted},
      pat \in Patterns }

Admissible(in, wide) ==
  /\ in.planted \subseteq Sites(in.len)
  /\ wide \/ in.planted \subseteq {0}
  /\ in.planted = {} => in.pat.canonical

IdleTranscript == [challenge |-> <<>>, batch |-> <<>>]

InitCaller(wide) ==
  /\ \E in \in {i \in Inputs : Admissible(i, wide)} :
       /\ slice = MakeSlice(in.len, in.planted, in.pat.bytes)
       /\ bad = IF in.pat.canonical THEN {} ELSE in.planted
  /\ b32 = None /\ b48 = None /\ blob = None
  /\ wire = NoWire
  /\ ret = IdleRet
  /\ nbatch = 0 /\ transcript = IdleTranscript
  /\ k = 0 /\ acc = ZERO /\ n = 0

Init == InitCaller(FALSE)

Idle == <<nbatch, transcript, k, acc, n>>

Bytes32FromSlice ==
  LET r == Bytes32_from_slice(slice)
  IN  /\ ret' = Call("Bytes32::from_slice", r)
      /\ b32' = IF r.tag = "Ok" THEN Some(r.val) ELSE b32
      /\ UNCHANGED <<slice, bad, b48, blob, wire, Idle>>

Bytes32AsSlice ==
  /\ b32.some
  /\ ret' = Call("Bytes32::as_slice", Ok(Bytes_as_slice(b32.bytes)))
  /\ UNCHANGED <<slice, bad, b32, b48, blob, wire, Idle>>

Bytes32Boxed ==
  /\ b32.some
  /\ ret' = Call("Bytes32::boxed", Ok(Bytes_boxed(b32.bytes)))
  /\ b32' = None
  /\ UNCHANGED <<slice, bad, b48, blob, wire, Idle>>

Bytes32Into ==
  /\ b32.some
  /\ ret' = Call("Bytes32::into", Ok(Bytes_into(b32.bytes)))
  /\ b32' = None
  /\ UNCHANGED <<slice, bad, b48, blob, wire, Idle>>

Bytes48FromSlice ==
  LET r == Bytes48_from_slice(slice)
  IN  /\ ret' = Call("Bytes48::from_slice", r)
      /\ b48' = IF r.tag = "Ok" THEN Some(r.val) ELSE b48
      /\ UNCHANGED <<slice, bad, b32, blob, wire, Idle>>

Bytes48AsSlice ==
  /\ b48.some
  /\ ret' = Call("Bytes48::as_slice", Ok(Bytes_as_slice(b48.bytes)))
  /\ UNCHANGED <<slice, bad, b32, b48, blob, wire, Idle>>

Bytes48Boxed ==
  /\ b48.some
  /\ ret' = Call("Bytes48::boxed", Ok(Bytes_boxed(b48.bytes)))
  /\ b48' = None
  /\ UNCHANGED <<slice, bad, b32, blob, wire, Idle>>

Bytes48Into ==
  /\ b48.some
  /\ ret' = Call("Bytes48::into", Ok(Bytes_into(b48.bytes)))
  /\ b48' = None
  /\ UNCHANGED <<slice, bad, b32, blob, wire, Idle>>

BlobFromSlice ==
  LET r == Blob_from_slice(slice)
  IN  /\ ret' = Call("Blob::from_slice", r)
      /\ blob' = IF r.tag = "Ok" THEN Some(r.val) ELSE blob
      /\ UNCHANGED <<slice, bad, b32, b48, wire, Idle>>

BlobAsSlice ==
  /\ blob.some
  /\ ret' = Call("Blob::as_slice", Ok(Blob_as_slice(blob.bytes)))
  /\ UNCHANGED <<slice, bad, b32, b48, blob, wire, Idle>>

BlobBoxed ==
  /\ blob.some
  /\ ret' = Call("Blob::boxed", Ok(Blob_boxed(blob.bytes)))
  /\ blob' = None
  /\ UNCHANGED <<slice, bad, b32, b48, wire, Idle>>

BlobInto ==
  /\ blob.some
  /\ ret' = Call("Blob::into", Ok(Blob_into(blob.bytes)))
  /\ blob' = None
  /\ UNCHANGED <<slice, bad, b32, b48, wire, Idle>>

BlobClone ==
  /\ blob.some
  /\ ret' = Call("Blob::clone", Ok(Blob_clone(blob.bytes)))
  /\ UNCHANGED <<slice, bad, b32, b48, blob, wire, Idle>>

BlobAsPolynomial ==
  /\ blob.some
  /\ ret' = Call("Blob::as_polynomial", Blob_as_polynomial(blob.bytes))
  /\ UNCHANGED <<slice, bad, b32, b48, blob, wire, Idle>>

BlobSerialize ==
  /\ blob.some
  /\ wire' = [some |-> TRUE, bytes |-> Blob_serialize(blob.bytes), from |-> "Blob::serialize"]
  /\ ret' = Call("Blob::serialize", Ok(<<>>))
  /\ UNCHANGED <<slice, bad, b32, b48, blob, Idle>>

(* A peer serializes the byte buffer slice, of whatever length. *)
BytesSerialize ==
  /\ wire' = [some |-> TRUE, bytes |-> BincodeSerializeBytes(slice), from |-> "bytes"]
  /\ ret' = Call("bytes::serialize", Ok(<<>>))
  /\ UNCHANGED <<slice, bad, b32, b48, blob, Idle>>

BlobDeserialize ==
  /\ wire.some
  /\ LET r == Blob_deserialize(wire.bytes)
     IN  /\ ret' = Call("Blob::deserialize", r)
         /\ blob' = IF r.tag = "Ok" THEN Some(r.val) ELSE blob
  /\ UNCHANGED <<slice, bad, b32, b48, wire, Idle>>

(* The byte containers *)
Next ==
  \/ Bytes32FromSlice \/ Bytes32AsSlice \/ Bytes32Boxed \/ Bytes32Into
  \/ Bytes48FromSlice \/ Bytes48AsSlice \/ Bytes48Boxed \/ Bytes48Into
  \/ BlobFromSlice \/ BlobAsSlice \/ BlobBoxed \/ BlobInto \/ BlobClone

Spec == Init /\ [][Next]_vars

(* Blob to polynomial *)
InitPoly == InitCaller(TRUE)

NextPoly == BlobFromSlice \/ BlobAsSlice \/ BlobClone \/ BlobAsPolynomial

SpecPoly == InitPoly /\ [][NextPoly]_vars

(* Blob over serde *)
InitSerde == InitCaller(FALSE)

NextSerde == BlobFromSlice \/ BlobClone \/ BlobSerialize \/ BytesSerialize \/ BlobDeserialize

SpecSerde == InitSerde /\ [][NextSerde]_vars

----------------------------------------------------------------------------
(* Fiat-Shamir hash inputs (kzg_proof.rs: compute_challenge, compute_r_powers) *)

Ascii(c) ==
  CASE c = "1" -> 49 []
       c = "A" -> 65 []
       c = "B" -> 66 []
       c = "C" -> 67 []
       c = "E" -> 69 []
       c = "F" -> 70 []
       c = "G" -> 71 []
       c = "H" -> 72 []
       c = "I" -> 73 []
       c = "K" -> 75 []
       c = "L" -> 76 []
       c = "O" -> 79 []
       c = "R" -> 82 []
       c = "S" -> 83 []
       c = "T" -> 84 []
       c = "V" -> 86 []
       c = "Y" -> 89 []
       c = "Z" -> 90 []
       c = "_" -> 95

(* str::as_bytes *)
AsBytes(str) == FromSeq([i \in 1..Len(str) |-> Ascii(str[i])])

(* u64::to_be_bytes *)
RECURSIVE BEBytes(_, _)
BEBytes(x, cnt) == IF cnt = 0 THEN <<>> ELSE BEBytes(x \div 256, cnt - 1) \o <<x % 256>>

U64BE(x) == FromSeq(BEBytes(x, 8))

(* domain tag, 8-byte 0, 8-byte N, the blob, the commitment *)
ChallengeInput(blobBytes, commitmentBytes) ==
  Cat(Cat(Cat(Cat(AsBytes(FIAT_SHAMIR_PROTOCOL_DOMAIN), U64BE(0)),
              U64BE(NUM_FIELD_ELEMENTS_PER_BLOB)),
          blobBytes),
      commitmentBytes)

RECURSIVE BatchItems(_)
BatchItems(items) ==
  IF items = <<>> THEN <<>>
  ELSE Cat(Cat(Cat(Cat(items[1].commitment, items[1].z), items[1].y), items[1].proof),
           BatchItems(Tail(items)))

(* domain tag, 8-byte N, 8-byte n, then commitment, z, y, proof of each tuple *)
BatchInput(items) ==
  Cat(Cat(Cat(AsBytes(RANDOM_CHALLENGE_KZG_BATCH_DOMAIN), U64BE(NUM_FIELD_ELEMENTS_PER_BLOB)),
          U64BE(Len(items))),
      BatchItems(items))

MaxBatch == 2

(* 48-byte encodings standing for commitments and proofs: the compressed point
   at infinity and two fillers. *)
Encodings48 ==
  { FromSeq([i \in 1..BYTES_PER_COMMITMENT |-> IF i = 1 THEN 192 ELSE 0]),
    FromSeq([i \in 1..BYTES_PER_COMMITMENT |-> 0]),
    FromSeq([i \in 1..BYTES_PER_COMMITMENT |-> 255]) }

InitTranscript ==
  /\ \E in \in {i \in Inputs : Admissible(i, TRUE) /\ i.len = BYTES_PER_BLOB /\ i.pat.canonical} :
       /\ slice = MakeSlice(in.len, in.planted, in.pat.bytes)
       /\ blob = Some(Blob_from_slice(slice).val)
  /\ bad = {}
  /\ \E e \in Encodings48 : b48 = Some(Bytes48_from_slice(e).val)
  /\ nbatch \in 0..MaxBatch
  /\ b32 = None /\ wire = NoWire /\ ret = IdleRet
  /\ transcript = IdleTranscript
  /\ k = 0 /\ acc = ZERO /\ n = 0

(* compute_challenge(blob, commitment): the bytes handed to the hash *)
ComputeChallenge ==
  /\ blob.some /\ b48.some
  /\ transcript' = [transcript EXCEPT !.challenge =
                       ChallengeInput(Blob_as_slice(blob.bytes), Bytes_as_slice(b48.bytes))]
  /\ UNCHANGED <<slice, bad, b32, b48, blob, wire, ret, nbatch, k, acc, n>>

(* compute_r_powers over nbatch tuples: the bytes handed to the hash; z is the
   encoding of 0 and y that of q - 1 *)
ComputeRPowers ==
  /\ b48.some
  /\ LET item == [commitment |-> Bytes_as_slice(b48.bytes),
                  z |-> BytesFromDigitsBE(ZERO),
                  y |-> BytesFromDigitsBE(SubDigits(q, ONE, NumDigits, 0)),
                  proof |-> Bytes_as_slice(b48.bytes)]
     IN  transcript' = [transcript EXCEPT !.batch = BatchInput([i \in 1..nbatch |-> item])]
  /\ UNCHANGED <<slice, bad, b32, b48, blob, wire, ret, nbatch, k, acc, n>>

NextTranscript == ComputeChallenge \/ ComputeRPowers

SpecTranscript == InitTranscript /\ [][NextTranscript]_vars

----------------------------------------------------------------------------
(* Roots of unity: SCALE2_ROOT_OF_UNITY[k] squared k times.               *)

InitRoots ==
  /\ k \in 0..(Len(SCALE2_ROOT_OF_UNITY) - 1)
  /\ acc = FromRaw(SCALE2_ROOT_OF_UNITY[k + 1])
  /\ n = 0
  /\ slice = <<>> /\ bad = {} /\ b32 = None /\ b48 = None /\ blob = None
  /\ wire = NoWire /\ ret = IdleRet
  /\ nbatch = 0 /\ transcript = IdleTranscript

Square ==
  /\ n < k
  /\ acc' = MulMod(acc, acc)
  /\ n' = n + 1
  /\ UNCHANGED <<slice, bad, b32, b48, blob, wire, ret, nbatch, transcript, k>>

NextRoots == Square

SpecRoots == InitRoots /\ [][NextRoots]_vars

----------------------------------------------------------------------------
(* Properties *)

QMinusOne == SubDigits(q, ONE, NumDigits, 0)

LengthChecked(op, size) ==
  ret.op = op =>
    /\ ret.tag \in {"Ok", "Err"}
    /\ ret.tag = "Err" <=> BLen(slice) # size
    /\ ret.tag = "Err" => ret.err = "InvalidBytesLength"

(* C1: for Bytes32 (32), Bytes48 (48) and Blob (131072), from_slice returns
   Err(InvalidBytesLength) exactly when the slice length differs from the
   declared size, and Ok for every slice of the declared size, whatever its
   bytes (a 32-byte value >= q included). *)
C1_FromSliceLength ==
  /\ LengthChecked("Bytes32::from_slice", 32)
  /\ LengthChecked("Bytes48::from_slice", 48)
  /\ LengthChecked("Blob::from_slice", 131072)

(* Bytes32::from_slice has accepted the 32 bytes of a value >= q. *)
C1_Witness ==
  /\ ret.op = "Bytes32::from_slice" /\ ret.tag = "Ok"
  /\ BLen(slice) = 32 /\ bad = {0}

(* The scalar the big-endian bytes [32 i, 32 i + 32) of the slice encode. *)
ScalarAt(i) ==
  [d \in 1..NumDigits |-> At(slice, 32 * i + 2 * d - 1) * 256 + At(slice, 32 * i + 2 * d)]

(* C2: a successful as_polynomial returns exactly 4096 scalars, the i-th being
   the scalar encoded by blob bytes [32 i, 32 i + 32): contiguous chunks, in
   order, covering the blob. *)
C2_PolynomialChunks ==
  (ret.op = "Blob::as_polynomial" /\ ret.tag = "Ok") =>
    /\ Len(ret.val) = 4096
    /\ \A i \in 0..4095 : ret.val[i + 1] = ScalarAt(i)

(* as_polynomial has succeeded on a blob whose last chunk alone is q - 1. *)
C2_Witness ==
  /\ ret.op = "Blob::as_polynomial" /\ ret.tag = "Ok"
  /\ ret.val[4096] = QMinusOne /\ ret.val[1] = ZERO

(* C3: as_polynomial fails with BadArgs when some chunk of the blob holds a
   value >= q, wherever the chunk sits, and succeeds exactly when all 4096
   chunks are canonical. *)
C3_BadArgsIffNonCanonical ==
  ret.op = "Blob::as_polynomial" =>
    /\ ret.tag \in {"Ok", "Err"}
    /\ ret.tag = "Ok" <=> bad = {}
    /\ bad # {} => ret.err = "BadArgs"

(* as_polynomial has failed on a blob whose only non-canonical chunk is the last. *)
C3_Witness ==
  /\ ret.op = "Blob::as_polynomial" /\ ret.tag = "Err" /\ ret.err = "BadArgs"
  /\ bad = {4095}

(* C4 as stated: every Blob obtained through from_slice, deserialization or
   clone has 4096 chunks that each decode to a valid Scalar (value < q). *)
C4_EveryChunkCanonical ==
  blob.some => \A i \in 0..4095 : 
    IsCanonical(DigitsFromBytesBE(Sub(blob.bytes, 32 * i + 1, 32 * i + 32)))

(* C4, amended: every Blob obtained through from_slice, deserialization or
   clone holds exactly 131072 bytes, those it was built from; its chunks are
   not checked. *)
C4_BlobHoldsGivenBytes ==
  /\ blob.some => (BLen(blob.bytes) = 131072 /\ blob.bytes = slice)
  /\ (ret.op \in {"Blob::from_slice", "Blob::deserialize", "Blob::clone"} /\ ret.tag = "Ok") =>
       (BLen(ret.val) = 131072 /\ ret.val = slice)

(* A Blob with a chunk >= q has come out of deserialization. *)
C4_Witness ==
  /\ ret.op = "Blob::deserialize" /\ ret.tag = "Ok"
  /\ blob.some /\ bad # {}

(* C5: CHALLENGE_INPUT_SIZE is the length of the per-blob transcript,
   16 + 16 + 131072 + 48 = 131152, with BYTES_PER_BLOB = 4096 * 32 = 131072. *)
C5_ChallengeInputSize ==
  /\ BYTES_PER_BLOB = NUM_FIELD_ELEMENTS_PER_BLOB * BYTES_PER_FIELD_ELEMENT
  /\ BYTES_PER_BLOB = 131072
  /\ CHALLENGE_INPUT_SIZE = 16 + 16 + 131072 + 48
  /\ CHALLENGE_INPUT_SIZE = 131152
  /\ transcript.challenge # <<>> => BLen(transcript.challenge) = CHALLENGE_INPUT_SIZE

(* A per-blob transcript has been assembled. *)
C5_Witness ==
  /\ transcript.challenge # <<>>
  /\ Sub(transcript.challenge, 33, 32 + BYTES_PER_BLOB) = blob.bytes

(* C6: the two domain tags are each DOMAIN_STR_LENGTH = 16 bytes long and
   differ, so a per-blob and a batch transcript never start with the same 16
   bytes. *)
C6_DomainTags ==
  /\ DOMAIN_STR_LENGTH = 16
  /\ BLen(AsBytes(FIAT_SHAMIR_PROTOCOL_DOMAIN)) = DOMAIN_STR_LENGTH
  /\ BLen(AsBytes(RANDOM_CHALLENGE_KZG_BATCH_DOMAIN)) = DOMAIN_STR_LENGTH
  /\ FIAT_SHAMIR_PROTOCOL_DOMAIN # RANDOM_CHALLENGE_KZG_BATCH_DOMAIN
  /\ (transcript.challenge # <<>> /\ transcript.batch # <<>>) =>
       Sub(transcript.challenge, 1, 16) # Sub(transcript.batch, 1, 16)

(* Both transcripts have been assembled, the batch one over two tuples. *)
C6_Witness ==
  /\ transcript.challenge # <<>> /\ transcript.batch # <<>>
  /\ nbatch = 2

(* Entry k is canonical, is 1 after k squarings and q - 1 (not 1) after k - 1:
   its order is exactly 2^k. *)
RootOfOrderTwoToK ==
  /\ n = 0 => IsCanonical(acc)
  /\ n = k => acc = ONE
  /\ (k >= 1 /\ n = k - 1) => (acc = QMinusOne /\ acc # ONE)

(* C7 as stated: the table holds one entry for every k = 0..32, each a
   canonical 2^k-th root of unity. *)
C7_EntriesZeroTo32 ==
  /\ Len(SCALE2_ROOT_OF_UNITY) = 33
  /\ RootOfOrderTwoToK

(* C7, amended: the table holds one entry for every k = 0..31 (32 entries),
   and entry k is a canonical scalar of order exactly 2^k; so entry 12 has
   order 4096, entry 0 is 1 and entry 1 is q - 1. *)
C7_EntriesZeroTo31 ==
  /\ Len(SCALE2_ROOT_OF_UNITY) = 32
  /\ k \in 0..31
  /\ RootOfOrderTwoToK

(* The entry for N = 4096 has been squared 12 times. *)
C7_Witness == k = 12 /\ n = 12 /\ acc = ONE

(* C8: deserializing a serialized Blob succeeds with the same 131072 bytes,
   and deserializing bytes of any other length fails. *)
C8_SerdeRoundTrip ==
  ret.op = "Blob::deserialize" =>
    /\ wire.from = "Blob::serialize" =>
         (ret.tag = "Ok" /\ BLen(ret.val) = 131072 /\ ret.val = slice /\ blob = Some(ret.val))
    /\ BLen(slice) # 131072 => ret.tag = "Err"

(* A serialized Blob with non-zero bytes has been deserialized. *)
C8_Witness ==
  /\ ret.op = "Blob::deserialize" /\ ret.tag = "Ok"
  /\ wire.from = "Blob::serialize" /\ At(slice, 1) # 0

RoundTrip(ty, size, held) ==
  /\ ret.op \in {ty \o "::as_slice", ty \o "::into", ty \o "::boxed"} =>
       (ret.val = slice /\ BLen(ret.val) = size)
  /\ ret.op = ty \o "::as_slice" => (held.some /\ held.bytes = ret.val)

(* C9: for Bytes32, Bytes48 and Blob, from_slice followed by as_slice, by the
   conversion to the owned array or by boxed returns the bytes of the slice,
   in order and of the declared length; as_slice leaves the container as it
   was. *)
C9_ByteRoundTrip ==
  /\ RoundTrip("Bytes32", 32, b32)
  /\ RoundTrip("Bytes48", 48, b48)
  /\ RoundTrip("Blob", 131072, blob)

(* boxed has returned the bytes of a Blob built from a slice that is not all zero. *)
C9_Witness ==
  /\ ret.op = "Blob::boxed" /\ ret.val = slice
  /\ At(slice, 1) # 0

(* C10: as_polynomial never returns InvalidBytesLength: 32 divides the blob
   length, so its only error is the decoder's, raised at the lowest-index
   non-canonical chunk, the later chunks not being decoded. *)
C10_OnlyDecoderError ==
  /\ BYTES_PER_BLOB % BYTES_PER_FIELD_ELEMENT = 0
  /\ ret.op = "Blob::as_polynomial" =>
       /\ ret.err # "InvalidBytesLength"
       /\ ret.tag = "Err" => (ret.err = "BadArgs" /\ bad # {} /\ ret.pulled = Min(bad) + 1)
       /\ ret.tag = "Ok" => ret.pulled = 4096

(* as_polynomial has stopped at the first of two non-canonical chunks. *)
C10_Witness ==
  /\ ret.op = "Blob::as_polynomial" /\ ret.tag = "Err"
  /\ Cardinality(bad) = 2 /\ ret.pulled = Min(bad) + 1
====
